---- MODULE Spec2Model ----
(***************************************************************************)
(* State-machine model of src/main.py: the SQLite database viewer.         *)
(*                                                                         *)
(*   DatabaseLoader (QThread)  - one worker per load; lists the tables of  *)
(*                               a database file and emits progress and    *)
(*                               finished signals.                         *)
(*   MainWindow                - registry (database_items), tree model,    *)
(*                               tab widget, progress bar, status label.   *)
(*                                                                         *)
(* Signals emitted by a worker thread are queued to the UI thread's event  *)
(* loop (uiEvents) and delivered there one at a time, in posting order.    *)
(* A table name is written as a positive integer (its place in the catalog *)
(* of its database); a file path is a record [dir, base]. The title of the *)
(* data dock (lines 195 and 200) is written and never read, and is left    *)
(* out.                                                                    *)
(*                                                                         *)
(* The actions are the run of a loader and the handlers main.py connects   *)
(* to the menu, the tree view and the tab widget. What Qt does by itself   *)
(* without calling into main.py (selecting a tab, the in-place editor of   *)
(* an item view) is not modelled. A loader object lives until its run is   *)
(* over and its signals are delivered, and an exception that leaves run    *)
(* ends the thread of that loader and nothing else.                        *)
(***************************************************************************)
EXTENDS Integers, Sequences, FiniteSets, TLC

VARIABLES
    database_items,   \* MainWindow.database_items: db_name -> [path]
    workers,          \* every DatabaseLoader created so far, in creation order
    loaderThread,     \* MainWindow.loaderThread: index into workers, 0 = unset
    finishedSlots,    \* per worker: the db_name captured by the lambda on finished
    uiEvents,         \* queued signal deliveries pending in the UI event loop
    treeModel,        \* top-level items of the QStandardItemModel
    tabs,             \* pages of the QTabWidget, left to right
    currentIndex,     \* QTabWidget.currentIndex(), 0-based, -1 when empty
    progressBar,      \* [visible, value]
    statusLabel,      \* [kind, name]
    lastOp            \* the step just taken and what it did (history)

vars == <<database_items, workers, loaderThread, finishedSlots,
          uiEvents, treeModel, tabs, currentIndex, progressBar, statusLabel,
          lastOp>>

----------------------------------------------------------------------------
(* Bounds *)

MaxTables == 2
MaxRows == 1
MaxCols == 1
MaxTabs == 2
MaxTotal == 50

----------------------------------------------------------------------------
(* The environment: files the user can pick, and what a database holds.    *)

NoPath == [dir |-> "", base |-> ""]

Paths == { [dir |-> "d1", base |-> "shop.db"],
           [dir |-> "d2", base |-> "shop.db"],
           [dir |-> "d1", base |-> "blog.db"] }

\* os.path.basename
Basename(path) == path.base

\* What "SELECT name FROM sqlite_master WHERE type='table'" can return: the
\* names of the n tables of the file, distinct, in catalog order. A table
\* name is written as its place in that order.
Catalogs == { [i \in 1..n |-> i] : n \in 0..MaxTables }

\* fetchall() of the catalog query: one 1-tuple per table
CatalogRows(names) == [i \in 1..Len(names) |-> <<names[i]>>]

----------------------------------------------------------------------------
(* IEEE-754 double arithmetic, as far as line 33 needs it.                 *)
(* A positive double is [l, shift]: l its significand as five limbs, most  *)
(* significant first, l[1] the leading bit(s) and l[2..5] 13 bits each     *)
(* (1 + 4 * 13 = 53 bits); its value is                                    *)
(*     (l[1]*2^52 + l[2]*2^39 + l[3]*2^26 + l[4]*2^13 + l[5]) / 2^(52+shift) *)

LimbBits == 13
Limbs == 5

RECURSIVE Pow2(_)
Pow2(n) == IF n = 0 THEN 1 ELSE 2 * Pow2(n - 1)

LimbBase == Pow2(LimbBits)

RECURSIVE BitLength(_)
BitLength(n) == IF n = 0 THEN 0 ELSE 1 + BitLength(n \div 2)

RECURSIVE Normalise(_, _, _)
\* the least a >= 0 with k * 2^a >= t, and k * 2^a
Normalise(k, t, a) ==
    IF k >= t THEN [num |-> k, shift |-> a] ELSE Normalise(2 * k, t, a + 1)

\* the next 13 quotient bits of rem / t by long division
DivStep(rem, t) ==
    [d |-> (rem * LimbBase) \div t, rem |-> (rem * LimbBase) % t]

RECURSIVE IncrementLimbs(_, _)
\* add one unit at limb i, carrying leftwards; the carry out stays in l[1]
IncrementLimbs(l, i) ==
    IF i = 1 \/ l[i] + 1 < LimbBase
    THEN [l EXCEPT ![i] = @ + 1]
    ELSE IncrementLimbs([l EXCEPT ![i] = 0], i - 1)

\* k / t for integers 1 <= k <= t, correctly rounded (nearest, ties to even)
\* as Python's int / int is
TrueDivide(k, t) ==
    LET n  == Normalise(k, t, 0)
        s1 == DivStep(n.num - t, t)
        s2 == DivStep(s1.rem, t)
        s3 == DivStep(s2.rem, t)
        s4 == DivStep(s3.rem, t)
        raw == <<1, s1.d, s2.d, s3.d, s4.d>>
        up == \/ 2 * s4.rem > t
              \/ 2 * s4.rem = t /\ s4.d % 2 = 1
    IN  [l |-> IF up THEN IncrementLimbs(raw, Limbs) ELSE raw, shift |-> n.shift]

RECURSIVE MulLimbs(_, _, _, _)
\* the exact product l * c, limb by limb from the least significant; the top
\* limb takes the whole carry
MulLimbs(l, c, i, carry) ==
    LET v == l[i] * c + carry
    IN  IF i = 1 THEN [l EXCEPT ![1] = v]
        ELSE MulLimbs([l EXCEPT ![i] = v % LimbBase], c, i - 1, v \div LimbBase)

\* x * c for a double x and an integer 1 <= c < 2^13 (exactly representable,
\* as 100 is): the exact product rounded to 53 significant bits
FloatTimes(x, c) ==
    LET p    == MulLimbs(x.l, c, Limbs, 0)
        drop == BitLength(p[1]) - 1      \* bits beyond the 53rd, all in p[5]
        low  == p[Limbs]
        half == Pow2(drop - 1)
        unit == Pow2(drop)
        up   == /\ (low \div half) % 2 = 1
                /\ \/ low % half # 0
                   \/ (low \div unit) % 2 = 1
        kept == [p EXCEPT ![Limbs] = (low \div unit) * unit]
        next == kept[Limbs] + unit
    IN  IF drop = 0 THEN [l |-> p, shift |-> x.shift]
        ELSE IF ~up THEN [l |-> kept, shift |-> x.shift]
        ELSE IF next < LimbBase
             THEN [l |-> [kept EXCEPT ![Limbs] = next], shift |-> x.shift]
             ELSE [l |-> IncrementLimbs([kept EXCEPT ![Limbs] = 0], Limbs - 1),
                   shift |-> x.shift]

\* int(x): truncation toward zero; the limbs below l[1] are a fraction of
\* one unit of l[1]
FloatToInt(x) == x.l[1] \div Pow2(x.shift)

\* line 33 with round() for int()
ProgressValueRounded(idx, total_tables) ==
    (200 * (idx + 1) + total_tables) \div (2 * total_tables)

\* line 33 with idx for idx + 1
ProgressValueOffByOne(idx, total_tables) == (100 * idx) \div total_tables

\* line 33: int(((idx + 1) / total_tables) * 100)
ProgressValue(idx, total_tables) ==
    FloatToInt(FloatTimes(TrueDivide(idx + 1, total_tables), 100))

----------------------------------------------------------------------------
(* DatabaseLoader: one QThread per load.                                   *)
(* pc: "start" (started, run not yet entered), "connected" (after line 21),*)
(* "loop" (after line 28), "closed" (after line 36), "done" (after line    *)
(* 37), "failed" (an exception left run).                                  *)

\* DatabaseLoader.__init__ followed by start()
NewLoader(db_path) ==
    [db_path |-> db_path, pc |-> "start", conn |-> "none", tables |-> <<>>,
     table_list |-> <<>>, total_tables |-> 0, idx |-> 0, emitted |-> <<>>]

ProgressSignal(w, value) ==
    [sig |-> "progress", w |-> w, value |-> value, tables |-> <<>>]

FinishedSignal(w, table_list) ==
    [sig |-> "finished", w |-> w, value |-> 0, tables |-> table_list]

\* a signal emitted in the worker thread reaches its slot (connected at
\* lines 164-165) through the UI thread's event queue
Emit(queue, signal) == Append(queue, signal)

\* lastOp: which step ran last, how it ended, and for a UI handler what it
\* was called with and did (its queries, the connection it left behind)
Op(op, outcome) ==
    [op |-> op, outcome |-> outcome, db_name |-> "", db_path |-> NoPath,
     table |-> 0, index |-> -1, conn |-> "none", queries |-> <<>>,
     rows |-> 0, cols |-> 0]

WorkerStep == Op("worker", "")

UIUnchanged ==
    UNCHANGED <<database_items, loaderThread, finishedSlots,
                treeModel, tabs, currentIndex, progressBar, statusLabel>>

\* lines 20-21: sqlite3.connect, which may raise
WorkerConnect(w) ==
    /\ workers[w].pc = "start"
    /\ \E ok \in BOOLEAN :
          workers' = [workers EXCEPT
              ![w].pc = IF ok THEN "connected" ELSE "failed",
              ![w].conn = IF ok THEN "open" ELSE "none"]
    /\ lastOp' = WorkerStep
    /\ UNCHANGED uiEvents
    /\ UIUnchanged

\* lines 24-28: the catalog query succeeds with some catalog
WorkerQuery(w) ==
    /\ workers[w].pc = "connected"
    /\ \E names \in Catalogs :
          workers' = [workers EXCEPT
              ![w].pc = "loop",
              ![w].tables = CatalogRows(names),
              ![w].table_list = <<>>,
              ![w].total_tables = Len(names)]
    /\ lastOp' = WorkerStep
    /\ UNCHANGED uiEvents
    /\ UIUnchanged

\* line 24 with the failure reported as a finished signal of no tables
WorkerQueryFailsEmitting(w) ==
    /\ workers[w].pc = "connected"
    /\ workers' = [workers EXCEPT ![w].pc = "failed"]
    /\ uiEvents' = Append(uiEvents, FinishedSignal(w, <<>>))
    /\ lastOp' = WorkerStep
    /\ UIUnchanged

\* line 24: cursor.execute raises (not a database, locked, ...); the
\* exception leaves run at once, line 36 is not reached
WorkerQueryFails(w) ==
    /\ workers[w].pc = "connected"
    /\ workers' = [workers EXCEPT ![w].pc = "failed"]
    /\ lastOp' = WorkerStep
    /\ UNCHANGED uiEvents
    /\ UIUnchanged

\* lines 31-34: one iteration of the loop
WorkerLoopStep(w) ==
    LET self == workers[w]
        table == self.tables[self.idx + 1]
        progress_value == ProgressValue(self.idx, self.total_tables)
    IN  /\ self.pc = "loop"
        /\ self.idx < self.total_tables
        /\ workers' = [workers EXCEPT
              ![w].table_list = Append(self.table_list, table[1]),
              ![w].emitted = Append(self.emitted, progress_value),
              ![w].idx = self.idx + 1]
        /\ uiEvents' = Emit(uiEvents, ProgressSignal(w, progress_value))
        /\ lastOp' = WorkerStep
        /\ UIUnchanged

\* line 36: conn.close(), once the loop is over
WorkerClose(w) ==
    /\ workers[w].pc = "loop"
    /\ workers[w].idx = workers[w].total_tables
    /\ workers' = [workers EXCEPT ![w].pc = "closed", ![w].conn = "closed"]
    /\ lastOp' = WorkerStep
    /\ UNCHANGED uiEvents
    /\ UIUnchanged

\* line 37 reaching a handler only while the window still refers to this
\* loader
WorkerEmitFinishedIfCurrent(w) ==
    /\ workers[w].pc = "closed"
    /\ workers' = [workers EXCEPT ![w].pc = "done"]
    /\ uiEvents' = IF w = loaderThread
                   THEN Append(uiEvents, [sig |-> "finished", w |-> w, value |-> 0,
                                          tables |-> workers[w].table_list])
                   ELSE uiEvents
    /\ lastOp' = Op("worker", "")
    /\ UNCHANGED <<database_items, loaderThread, finishedSlots,
                   treeModel, tabs, currentIndex, progressBar, statusLabel>>

\* line 37: self.finished.emit(table_list)
WorkerEmitFinished(w) ==
    /\ workers[w].pc = "closed"
    /\ workers' = [workers EXCEPT ![w].pc = "done"]
    /\ uiEvents' = Emit(uiEvents, FinishedSignal(w, workers[w].table_list))
    /\ lastOp' = WorkerStep
    /\ UIUnchanged

----------------------------------------------------------------------------
(* MainWindow *)

\* line 152: db_name in self.database_items
AlreadyLoadedByPath(db_name, db_path) ==
    \E n \in DOMAIN database_items : database_items[n].path = db_path

AlreadyLoaded(db_name, db_path) == db_name \in DOMAIN database_items

\* line 156: self.database_items[db_name] = {'path': db_path}
Register(items, db_name, db_path) ==
    [n \in DOMAIN items \cup {db_name} |->
        IF n = db_name THEN [path |-> db_path] ELSE items[n]]

\* line 165: every earlier loader loses its handler to the new one
ConnectFinishedReplacing(slots, db_name) ==
    [w \in 1..(Len(slots) + 1) |-> db_name]

\* line 165: finished.connect(lambda tables: self.onDatabaseLoaded(db_name,
\* tables)) on the loader just created; db_name is bound in this call's scope
ConnectFinished(slots, db_name) == Append(slots, db_name)

\* lines 150-166
LoadDatabase(db_name, db_path) ==
    IF AlreadyLoaded(db_name, db_path)
    THEN /\ lastOp' = [Op("newSession", "ignored") EXCEPT
                            !.db_name = db_name, !.db_path = db_path]
         /\ UNCHANGED <<database_items, workers, loaderThread, finishedSlots,
                        progressBar, statusLabel>>
    ELSE /\ database_items' = Register(database_items, db_name, db_path)
         /\ progressBar' = [visible |-> TRUE, value |-> 0]
         /\ statusLabel' = [kind |-> "Loading", name |-> db_name]
         /\ workers' = Append(workers, NewLoader(db_path))
         /\ loaderThread' = Len(workers) + 1
         /\ finishedSlots' = ConnectFinished(finishedSlots, db_name)
         /\ lastOp' = [Op("newSession", "started") EXCEPT
                            !.db_name = db_name, !.db_path = db_path]

\* lines 143-148: the file dialog returns db_path, NoPath when cancelled
NewSession(db_path) ==
    /\ IF db_path # NoPath
       THEN LoadDatabase(Basename(db_path), db_path)
       ELSE UNCHANGED <<database_items, workers, loaderThread, finishedSlots,
                       progressBar, statusLabel, lastOp>>
    /\ UNCHANGED <<uiEvents, treeModel, tabs, currentIndex>>

\* the db_name of the lambda a finished signal of worker w is delivered to
SlotNameLatest(w) == finishedSlots[loaderThread]

SlotName(w) == finishedSlots[w]

\* lines 174-180 labelling the database item with the directory of its file
DatabaseNodeOfDirectory(db_name, tables) ==
    [text |-> database_items[db_name].path.dir, children |-> tables]

\* lines 174-180: the database item and one child per table, in order
DatabaseNode(db_name, tables) == [text |-> db_name, children |-> tables]

\* lines 168-180
OnDatabaseLoaded(db_name, tables) ==
    /\ progressBar' = [progressBar EXCEPT !.visible = FALSE]
    /\ statusLabel' = [kind |-> "Loaded", name |-> db_name]
    /\ treeModel' = Append(treeModel, DatabaseNode(db_name, tables))

\* lines 182-184
UpdateProgressBar(value) ==
    /\ progressBar' = [progressBar EXCEPT !.value = value]
    /\ UNCHANGED <<statusLabel, treeModel>>

\* the UI event loop delivers the oldest queued signal to its slot
DeliverSignal ==
    /\ uiEvents # <<>>
    /\ LET ev == Head(uiEvents)
       IN  /\ IF ev.sig = "finished"
              THEN OnDatabaseLoaded(SlotName(ev.w), ev.tables)
              ELSE UpdateProgressBar(ev.value)
           /\ lastOp' = Op("deliver", ev.sig)
    /\ uiEvents' = Tail(uiEvents)
    /\ UNCHANGED <<database_items, workers, loaderThread, finishedSlots, tabs,
                   currentIndex>>

----------------------------------------------------------------------------
(* Table viewer tabs *)

\* fetchall() of "SELECT * FROM <table>": n rows of wd values
Rows(n, wd) == [r \in 1..n |-> [c \in 1..wd |-> "v"]]

\* fetchall() of "PRAGMA table_info(<table>)": one (cid, name) row per column
Columns(m) == [c \in 1..m |-> <<c - 1, c>>]

\* what the two queries of one addTableTab call can answer
SelectResults ==
    {[ok |-> FALSE, data |-> <<>>]} \cup
    {[ok |-> TRUE, data |-> Rows(n, wd)] : n \in 0..MaxRows, wd \in 0..MaxCols}

PragmaResults ==
    {[ok |-> FALSE, columns |-> <<>>]} \cup
    {[ok |-> TRUE, columns |-> Columns(m)] : m \in 0..MaxCols}

Answers == [connOk : BOOLEAN, sel : SelectResults, prag : PragmaResults]

\* line 214 and line 216: the query text names the table and runs on the
\* connection to db_path
SelectQuery(db_path, table_name) ==
    [kind |-> "select", path |-> db_path, table |-> table_name]

PragmaQuery(db_path, table_name) ==
    [kind |-> "pragma", path |-> db_path, table |-> table_name]

\* lines 220-231 with the column count taken from the width of the rows
TableWidgetByRowWidth(data, columns) ==
    [rowCount |-> Len(data),
     columnCount |-> IF data = <<>> THEN 0 ELSE Len(data[1])]

\* lines 220-231: setRowCount(len(data)), setColumnCount(len(columns)); the
\* header labels and the cell items change neither count
TableWidget(data, columns) ==
    [rowCount |-> Len(data), columnCount |-> Len(columns)]

\* line 235 reusing the tab of that title when there is one
AddTabDeduplicated(ts, table_widget, table_name) ==
    IF \E n \in 1..Len(ts) : ts[n].title = table_name
    THEN ts
    ELSE Append(ts, [title |-> table_name, widget |-> table_widget])

\* lines 235-238: addTab, then setCurrentIndex(count() - 1)
AddTab(ts, table_widget, table_name) ==
    Append(ts, [title |-> table_name, widget |-> table_widget])

\* lines 204-208 with the path of the loader started last
ResolvePathLatest(db_name) == [path |-> workers[loaderThread].db_path]

\* line 204: self.database_items.get(db_name)
ResolvePath(db_name) == database_items[db_name]

\* lines 212-241 with the tab added as soon as the rows are fetched
TryBlockEagerTab(db_path, table_name, ans) ==
    IF ~ans.sel.ok
    THEN [tabs |-> tabs, currentIndex |-> currentIndex,
          queries |-> <<SelectQuery(db_path, table_name)>>, outcome |-> "error"]
    ELSE LET ts == AddTab(tabs, TableWidget(ans.sel.data, ans.prag.columns),
                          table_name)
         IN  [tabs |-> ts, currentIndex |-> Len(ts) - 1,
              queries |-> <<SelectQuery(db_path, table_name),
                            PragmaQuery(db_path, table_name)>>,
              outcome |-> IF ans.prag.ok THEN "opened" ELSE "error"]

\* lines 212-241: the try block and its except clause
TryBlock(db_path, table_name, ans) ==
    IF ~ans.sel.ok
    THEN [tabs |-> tabs, currentIndex |-> currentIndex,
          queries |-> <<SelectQuery(db_path, table_name)>>, outcome |-> "error"]
    ELSE IF ~ans.prag.ok
    THEN [tabs |-> tabs, currentIndex |-> currentIndex,
          queries |-> <<SelectQuery(db_path, table_name),
                        PragmaQuery(db_path, table_name)>>,
          outcome |-> "error"]
    ELSE LET ts == AddTab(tabs, TableWidget(ans.sel.data, ans.prag.columns),
                          table_name)
         IN  [tabs |-> ts, currentIndex |-> Len(ts) - 1,
              queries |-> <<SelectQuery(db_path, table_name),
                            PragmaQuery(db_path, table_name)>>,
              outcome |-> "opened"]

\* lines 202-243; conn is the state of the call's connection on return
AddTableTab(db_name, table_name, ans) ==
    IF db_name \notin DOMAIN database_items
    THEN [tabs |-> tabs, currentIndex |-> currentIndex, queries |-> <<>>,
          outcome |-> "unresolved", conn |-> "none", db_path |-> NoPath]
    ELSE LET db_path == ResolvePath(db_name).path
             body == TryBlock(db_path, table_name, ans)
         IN  IF ~ans.connOk
             THEN [tabs |-> tabs, currentIndex |-> currentIndex,
                   queries |-> <<>>, outcome |-> "connect_error",
                   conn |-> "none", db_path |-> db_path]
             ELSE [tabs |-> body.tabs, currentIndex |-> body.currentIndex,
                   queries |-> body.queries, outcome |-> body.outcome,
                   conn |-> "closed", db_path |-> db_path]

\* lines 186-200: a click on child j of top-level item i, or on the top-level
\* item itself when j = 0
OnTreeItemClicked(i, j) ==
    /\ i \in 1..Len(treeModel)
    /\ j \in 0..Len(treeModel[i].children)
    /\ IF j # 0
       THEN LET db_name == treeModel[i].text
                table_name == treeModel[i].children[j]
            IN  /\ Len(tabs) < MaxTabs
                /\ \E ans \in Answers :
                      LET r == AddTableTab(db_name, table_name, ans)
                      IN  /\ tabs' = r.tabs
                          /\ currentIndex' = r.currentIndex
                          /\ lastOp' = [Op("click", r.outcome) EXCEPT
                                !.db_name = db_name, !.db_path = r.db_path,
                                !.table = table_name, !.conn = r.conn,
                                !.queries = r.queries,
                                !.rows = IF r.outcome = "opened"
                                         THEN Len(ans.sel.data) ELSE 0,
                                !.cols = IF r.outcome = "opened"
                                         THEN Len(ans.prag.columns) ELSE 0]
       ELSE LET db_name == treeModel[i].text
            IN  /\ lastOp' = [Op("click", "database") EXCEPT
                                !.db_name = db_name]
                /\ UNCHANGED <<tabs, currentIndex>>
    /\ UNCHANGED <<database_items, workers, loaderThread, finishedSlots,
                   uiEvents, treeModel, progressBar, statusLabel>>

\* line 250 removing the tab after the one asked for
RemoveTabOffByOne(ts, index) ==
    LET k == IF index + 2 <= Len(ts) THEN index + 2 ELSE index + 1
    IN  [n \in 1..(Len(ts) - 1) |-> IF n < k THEN ts[n] ELSE ts[n + 1]]

\* line 250: QTabWidget.removeTab(index), index 0-based
RemoveTab(ts, index) ==
    [n \in 1..(Len(ts) - 1) |-> IF n <= index THEN ts[n] ELSE ts[n + 1]]

\* the current index QTabWidget keeps after removeTab(index)
CurrentAfterRemove(current, index, count) ==
    IF count = 1 THEN -1
    ELSE IF index < current THEN current - 1
    ELSE IF index = current /\ current = count - 1 THEN current - 1
    ELSE current

\* lines 248-250, reached from tabCloseRequested (line 134) with the index of
\* an existing tab
CloseTab(index) ==
    /\ index \in 0..(Len(tabs) - 1)
    /\ tabs' = RemoveTab(tabs, index)
    /\ currentIndex' = CurrentAfterRemove(currentIndex, index, Len(tabs))
    /\ lastOp' = [Op("closeTab", "") EXCEPT !.index = index]
    /\ UNCHANGED <<database_items, workers, loaderThread, finishedSlots,
                   uiEvents, treeModel, progressBar, statusLabel>>

\* line 246: QTabWidget.clear()
Clear(ts) == <<>>

\* lines 245-246 clearing the tree model along with the tabs
CloseAllTabsAndTree ==
    /\ tabs' = <<>>
    /\ currentIndex' = -1
    /\ treeModel' = <<>>
    /\ lastOp' = Op("closeAllTabs", "")
    /\ UNCHANGED <<database_items, workers, loaderThread, finishedSlots,
                   uiEvents, progressBar, statusLabel>>

\* lines 245-246
CloseAllTabs ==
    /\ tabs' = Clear(tabs)
    /\ currentIndex' = -1
    /\ lastOp' = Op("closeAllTabs", "")
    /\ UNCHANGED <<database_items, workers, loaderThread, finishedSlots,
                   uiEvents, treeModel, progressBar, statusLabel>>

----------------------------------------------------------------------------
(* The program *)

\* lines 40-75 and 117-141: the window after construction
Init ==
    /\ database_items = <<>>
    /\ workers = <<>>
    /\ loaderThread = 0
    /\ finishedSlots = <<>>
    /\ uiEvents = <<>>
    /\ treeModel = <<>>
    /\ tabs = <<>>
    /\ currentIndex = -1
    /\ progressBar = [visible |-> FALSE, value |-> 0]
    /\ statusLabel = [kind |-> "Ready", name |-> ""]
    /\ lastOp = Op("init", "")

Worker(w) ==
    \/ WorkerConnect(w)
    \/ WorkerQuery(w)
    \/ WorkerQueryFails(w)
    \/ WorkerLoopStep(w)
    \/ WorkerClose(w)
    \/ WorkerEmitFinished(w)

Next ==
    \/ \E db_path \in Paths \cup {NoPath} : NewSession(db_path)
    \/ \E w \in 1..Len(workers) : Worker(w)
    \/ DeliverSignal
    \/ \E i \in 1..Len(treeModel) :
          \E j \in 0..Len(treeModel[i].children) : OnTreeItemClicked(i, j)
    \/ \E index \in 0..(Len(tabs) - 1) : CloseTab(index)
    \/ CloseAllTabs

Spec == Init /\ [][Next]_vars

\* One run of the Table Lister on a database of n tables, from the moment
\* its catalog is fetched (line 28): the window has registered the file and
\* started the loader, nothing else has happened yet.
InitWorker ==
    \E n \in 0..MaxTotal :
        LET db_path == [dir |-> "d1", base |-> "shop.db"]
            names == [i \in 1..n |-> i]
        IN  /\ database_items = Register(<<>>, Basename(db_path), db_path)
            /\ workers = << [NewLoader(db_path) EXCEPT
                               !.pc = "loop", !.conn = "open",
                               !.tables = CatalogRows(names),
                               !.total_tables = n] >>
            /\ loaderThread = 1
            /\ finishedSlots = ConnectFinished(<<>>, Basename(db_path))
            /\ uiEvents = <<>>
            /\ treeModel = <<>>
            /\ tabs = <<>>
            /\ currentIndex = -1
            /\ progressBar = [visible |-> TRUE, value |-> 0]
            /\ statusLabel = [kind |-> "Loading", name |-> Basename(db_path)]
            /\ lastOp = WorkerStep

NextWorker ==
    \/ WorkerLoopStep(1)
    \/ WorkerClose(1)
    \/ WorkerEmitFinished(1)
    \/ DeliverSignal

SpecWorker == InitWorker /\ [][NextWorker]_vars

\* The loads alone: every newSession, every loader thread and the delivery
\* of their signals. The user is not obliged to do anything.
NextLoads ==
    \/ \E db_path \in Paths \cup {NoPath} : NewSession(db_path)
    \/ \E w \in 1..Len(workers) : Worker(w)
    \/ DeliverSignal

\* at most one loader is ever started per name (line 152)
Names == { Basename(db_path) : db_path \in Paths }

\* loader w has been started (line 166) and its run is not over: this is
\* ENABLED <<Worker(w)>>_vars, every pc short of "done" and "failed" having
\* a next step that changes pc or idx
RunPending(w) ==
    /\ w \in 1..Len(workers)
    /\ workers[w].pc \notin {"done", "failed"}

\* the operating system keeps scheduling a started QThread until its run is
\* over: weak fairness of the steps of loader w, WF_vars(Worker(w)) with the
\* enabling condition written out
LoaderFair(w) ==
    \/ []<>(~RunPending(w))
    \/ []<><<w \in 1..Len(workers) /\ Worker(w)>>_vars

\* and the UI event loop (app.exec_, line 256) keeps delivering the signals
\* queued to it
FairLoads ==
    /\ \A w \in 1..Cardinality(Names) : LoaderFair(w)
    /\ WF_vars(DeliverSignal)

SpecLoads == Init /\ [][NextLoads]_vars /\ FairLoads

----------------------------------------------------------------------------
(* Vocabulary of the properties *)

Loaders == 1..Len(workers)

\* the name a loader was started for: newSession registers the basename
LoadName(w) == Basename(workers[w].db_path)

\* the table names of the catalog a loader fetched, in catalog order
CatalogNames(w) ==
    [i \in 1..Len(workers[w].tables) |-> workers[w].tables[i][1]]

\* the run of loader w is over: finished was emitted, or an exception left run
RunEnded(w) == workers[w].pc \in {"done", "failed"}

FinishedPending(w) ==
    \E i \in 1..Len(uiEvents) : uiEvents[i].sig = "finished" /\ uiEvents[i].w = w

\* the load of loader w is not over for the window: it is still running, or
\* its finished signal is still to be delivered
InFlight(w) == ~RunEnded(w) \/ FinishedPending(w)

NonDecreasing(seq) == \A i, j \in 1..Len(seq) : i <= j => seq[i] <= seq[j]

\* the integers nearest to n / d, both of them on a tie
Nearest(n, d) ==
    LET fl == n \div d
    IN  IF 2 * (n % d) < d THEN {fl}
        ELSE IF 2 * (n % d) > d THEN {fl + 1}
        ELSE {fl, fl + 1}

----------------------------------------------------------------------------
(* C1: the registry holds one entry per name ever loaded and exactly one   *)
(* loader was started for each; a loadDatabase call for a name that is     *)
(* already registered, whatever its path, starts no loader and leaves the  *)
(* registry, the stored path included, as it was.                          *)

C1_OneLoadPerName ==
    /\ DOMAIN database_items = { LoadName(w) : w \in Loaders }
    /\ \A w1, w2 \in Loaders : LoadName(w1) = LoadName(w2) => w1 = w2
    /\ \A w \in Loaders : database_items[LoadName(w)].path = workers[w].db_path

C1_DuplicateIsNoOp ==
    /\ lastOp'.op = "newSession"
    /\ lastOp'.db_name \in DOMAIN database_items
    => /\ lastOp'.outcome = "ignored"
       /\ workers' = workers
       /\ database_items' = database_items
       /\ loaderThread' = loaderThread
       /\ uiEvents' = uiEvents

\* C1: one entry and one loader per name at all times, and a call for a
\* registered name changes neither registry nor loaders
C1_Registry == []C1_OneLoadPerName /\ [][C1_DuplicateIsNoOp]_vars

\* a second loadDatabase for a registered name, with another path, has run
C1_Witness ==
    /\ lastOp.op = "newSession"
    /\ lastOp.outcome = "ignored"
    /\ lastOp.db_path # database_items[lastOp.db_name].path

----------------------------------------------------------------------------
(* C2: the delivery of a loader's finished signal appends exactly one      *)
(* top-level node, named with the name that loader was started for, whose  *)
(* children are the table names of the catalog that loader fetched, in     *)
(* catalog order; the nodes already there stay. This holds whatever other  *)
(* loads are in flight and in whatever order completions arrive.           *)

C2_Completion ==
    /\ lastOp'.op = "deliver"
    /\ lastOp'.outcome = "finished"
    /\ uiEvents # <<>>
    /\ uiEvents' = Tail(uiEvents)
    => LET w == Head(uiEvents).w
       IN  treeModel' = Append(treeModel,
                               [text |-> LoadName(w), children |-> CatalogNames(w)])

\* C2: every completion step appends the node of its own load
C2_CompletionAddsItsNode == [][C2_Completion]_vars

\* the loader started second completed first, with two tables, while the
\* loader started first is still in flight
C2_Witness ==
    /\ Len(workers) = 2
    /\ InFlight(1)
    /\ lastOp.op = "deliver" /\ lastOp.outcome = "finished"
    /\ Len(treeModel) = 1
    /\ treeModel[1].text = LoadName(2)
    /\ Len(treeModel[1].children) = 2

----------------------------------------------------------------------------
(* C3: one run of the Table Lister over N tables.                          *)

LoopOver(w) == workers[w].pc \in {"closed", "done"}

\* the finished signal of w carries the N names in catalog order and no
\* signal of w follows it
FinishedAfterProgress(w) ==
    \A i \in 1..Len(uiEvents) :
        uiEvents[i].sig = "finished" /\ uiEvents[i].w = w
        => /\ uiEvents[i].tables = CatalogNames(w)
           /\ Len(uiEvents[i].tables) = workers[w].total_tables
           /\ Len(workers[w].emitted) = workers[w].total_tables
           /\ \A j \in (i + 1)..Len(uiEvents) : uiEvents[j].w # w

\* C3 as claimed: for every N >= 0 the progress values are non-decreasing
\* and the last one is 100, then finished carries the N names in order
C3_AsClaimed ==
    \A w \in Loaders :
        /\ NonDecreasing(workers[w].emitted)
        /\ LoopOver(w) =>
              /\ workers[w].emitted # <<>>
              /\ workers[w].emitted[Len(workers[w].emitted)] = 100
        /\ FinishedAfterProgress(w)

\* C3 amended: for every N >= 1 the progress values are N non-decreasing
\* values of which the last is 100; for N = 0 no progress value is emitted;
\* in both cases finished then carries exactly the N names in catalog order
C3_ProgressThenFinished ==
    \A w \in Loaders :
        /\ NonDecreasing(workers[w].emitted)
        /\ LoopOver(w) =>
              /\ Len(workers[w].emitted) = workers[w].total_tables
              /\ workers[w].total_tables >= 1 =>
                    workers[w].emitted[workers[w].total_tables] = 100
        /\ FinishedAfterProgress(w)

\* a run over at least three tables has emitted finished
C3_Witness ==
    /\ Len(workers) = 1
    /\ workers[1].pc = "done"
    /\ workers[1].total_tables >= 3
    /\ FinishedPending(1)
    /\ workers[1].emitted[1] < workers[1].emitted[2]

----------------------------------------------------------------------------
(* C4: when a run has ended, by emitting finished or by an exception of    *)
(* the catalog query, the connection it opened is closed; a finished       *)
(* signal is never emitted while the connection is open.                   *)

\* C4 as claimed: no ended run leaves its connection open, and no finished
\* signal exists while the connection is open
C4_ConnectionClosedAtEnd ==
    \A w \in Loaders :
        /\ RunEnded(w) => workers[w].conn # "open"
        /\ FinishedPending(w) => workers[w].conn = "closed"

----------------------------------------------------------------------------
(* C5: when the row scan or the column query of addTableTab fails, no tab  *)
(* is added: tabs, active tab, registry and tree are as before the call,   *)
(* and the connection the call opened is closed when it returns.           *)

C5_FailedOpen ==
    /\ lastOp'.op = "click"
    /\ lastOp'.outcome = "error"
    => /\ tabs' = tabs
       /\ currentIndex' = currentIndex
       /\ database_items' = database_items
       /\ treeModel' = treeModel
       /\ lastOp'.conn = "closed"

\* C5: every failed open leaves tabs, active tab, registry and tree alone and
\* returns with its connection closed
C5_FailedOpenAddsNoTab == [][C5_FailedOpen]_vars

\* the column query failed after the row scan succeeded, with a tab open
C5_Witness ==
    /\ lastOp.op = "click"
    /\ lastOp.outcome = "error"
    /\ Len(lastOp.queries) = 2
    /\ tabs # <<>>

----------------------------------------------------------------------------
(* C6: a table opened successfully is shown in a new last tab whose grid   *)
(* has as many rows as the row scan returned and as many columns as the    *)
(* column query reported, also for 0 rows and for 0 columns.               *)

\* C6: after a successful open the last tab's grid has the dimensions the
\* two queries returned
C6_SnapshotDimensions ==
    /\ lastOp.op = "click"
    /\ lastOp.outcome = "opened"
    => /\ tabs # <<>>
       /\ tabs[Len(tabs)].widget.rowCount = lastOp.rows
       /\ tabs[Len(tabs)].widget.columnCount = lastOp.cols

\* a table with a row and no reported column was opened
C6_Witness ==
    /\ lastOp.op = "click"
    /\ lastOp.outcome = "opened"
    /\ lastOp.rows = 1
    /\ lastOp.cols = 0
    /\ tabs[Len(tabs)].widget.columnCount = 0

----------------------------------------------------------------------------
(* C7: queries issued by a click.                                          *)

TableClick == lastOp.op = "click" /\ lastOp.table # 0

DatabaseClick == lastOp.op = "click" /\ lastOp.table = 0

QueryPair(db_name, table_name) ==
    << [kind |-> "select", path |-> database_items[db_name].path,
        table |-> table_name],
       [kind |-> "pragma", path |-> database_items[db_name].path,
        table |-> table_name] >>

\* C7 as claimed: a database click issues no query, a table click always
\* issues the pair
C7_AsClaimed ==
    /\ DatabaseClick => lastOp.queries = <<>>
    /\ TableClick => lastOp.queries = QueryPair(lastOp.db_name, lastOp.table)

\* C7 amended: a database click issues no query; a table click issues at
\* most the pair, in order, against the clicked table of the parent's
\* registered file: nothing when the connection cannot be opened, the data
\* query alone when it fails, both otherwise
C7_QueriesOfClick ==
    /\ DatabaseClick => lastOp.queries = <<>>
    /\ TableClick =>
          LET pair == QueryPair(lastOp.db_name, lastOp.table)
          IN  /\ lastOp.queries \in {<<>>, SubSeq(pair, 1, 1), pair}
              /\ lastOp.queries = <<>> <=> lastOp.outcome = "connect_error"
              /\ lastOp.outcome = "opened" => lastOp.queries = pair
              /\ Len(lastOp.queries) = 1 => lastOp.outcome = "error"

\* a table of the database loaded first was opened after a second database
\* was loaded from another file
C7_Witness ==
    /\ TableClick
    /\ lastOp.outcome = "opened"
    /\ Len(treeModel) = 2
    /\ lastOp.db_name = treeModel[1].text
    /\ lastOp.db_path # workers[loaderThread].db_path

----------------------------------------------------------------------------
(* C8: closeTab(i) removes the tab at i and nothing else, the others keep  *)
(* their order; closeAllTabs leaves no tab; neither touches the registry   *)
(* or the tree.                                                            *)

C8_Close ==
    /\ lastOp'.op = "closeTab" =>
          /\ tabs' = SubSeq(tabs, 1, lastOp'.index)
                     \o SubSeq(tabs, lastOp'.index + 2, Len(tabs))
          /\ Len(tabs') = Len(tabs) - 1
    /\ lastOp'.op = "closeAllTabs" => tabs' = <<>>
    /\ lastOp'.op \in {"closeTab", "closeAllTabs"} =>
          /\ database_items' = database_items
          /\ treeModel' = treeModel

----------------------------------------------------------------------------
(* C9: completion handlers of concurrent loads.                            *)

\* C9 as claimed: at most one load in flight has a completion handler
C9_AsClaimed ==
    Cardinality({ w \in Loaders : InFlight(w) /\ w <= Len(finishedSlots) }) <= 1

\* C9 amended: every loader has its own completion handler, bound to the
\* name it was started for, from its creation on; starting a new load
\* replaces the window's loaderThread reference and no handler
C9_OwnHandlerEach ==
    /\ Len(finishedSlots) = Len(workers)
    /\ \A w \in Loaders : finishedSlots[w] = LoadName(w)
    /\ loaderThread = Len(workers)

\* two loads are in flight, each with its handler
C9_Witness ==
    /\ Len(workers) = 2
    /\ InFlight(1) /\ InFlight(2)
    /\ finishedSlots[1] # finishedSlots[2]

----------------------------------------------------------------------------
(* C10: the progress value of entry index of total.                        *)

\* C10 as claimed: the value is 100 * (index + 1) / total rounded to the
\* nearest integer
C10_AsClaimed ==
    \A w \in Loaders : \A i \in 1..Len(workers[w].emitted) :
        workers[w].emitted[i] \in Nearest(100 * i, workers[w].total_tables)

\* C10 amended: the value is the double product ((index+1)/total)*100 cut
\* to an integer: floor(100 * (index+1) / total), or one less than that
\* when the quotient is a whole number and the double product falls short
C10_Truncated ==
    \A w \in Loaders : \A i \in 1..Len(workers[w].emitted) :
        LET total == workers[w].total_tables
            exact == (100 * i) \div total
        IN  \/ workers[w].emitted[i] = exact
            \/ /\ (100 * i) % total = 0
               /\ i < total
               /\ workers[w].emitted[i] = exact - 1

\* entry 28 of 50 was reported as 57, where 100 * 29 / 50 is 58
C10_Witness ==
    /\ Len(workers) = 1
    /\ workers[1].total_tables = 50
    /\ Len(workers[1].emitted) >= 29
    /\ workers[1].emitted[29] = 57

----------------------------------------------------------------------------
(* C11: a successful open of a table adds one tab, also when a tab of the  *)
(* same table of the same database is open already.                        *)

C11_Open ==
    /\ lastOp'.op = "click"
    /\ lastOp'.outcome = "opened"
    => /\ Len(tabs') = Len(tabs) + 1
       /\ SubSeq(tabs', 1, Len(tabs)) = tabs
       /\ tabs'[Len(tabs')].title = lastOp'.table
       /\ currentIndex' = Len(tabs') - 1

\* C11: every successful open appends exactly one tab after the tabs that
\* were there, titled with the table name, makes it the active tab and
\* leaves the earlier tabs as they were
C11_OpenAppendsOneTab == [][C11_Open]_vars

\* the only database of the tree had a table open in a tab, and the same
\* table was opened again
C11_Witness ==
    /\ lastOp.op = "click"
    /\ lastOp.outcome = "opened"
    /\ Len(treeModel) = 1
    /\ Len(tabs) = 2
    /\ tabs[1].title = lastOp.table
    /\ tabs[2].title = lastOp.table
    /\ currentIndex = 1

----------------------------------------------------------------------------
(* C12: a load whose database can be opened and queried gets its node.     *)

HasNode(db_name) == \E i \in 1..Len(treeModel) : treeModel[i].text = db_name

\* the load of loader w is settled: its run failed to open or query the
\* file, or the tree has a top-level node of its name
Settled(w) ==
    /\ w \in Loaders
    /\ \/ workers[w].pc = "failed"
       \/ HasNode(LoadName(w))

\* C12: under fair scheduling of the loaders and fair delivery of their
\* signals, every loader started by a loadDatabase call that registered a
\* new name either cannot open or query its database or is eventually
\* followed by a top-level node of that name, whatever other loads start
\* in between
C12_LoadEventuallyShown ==
    \A w \in 1..Cardinality(Names) : (w \in Loaders) ~> Settled(w)

\* the load started first got its node after the load started second, which
\* was started before the first had finished
C12_Witness ==
    /\ Len(workers) = 2
    /\ Len(treeModel) = 2
    /\ treeModel[1].text = LoadName(2)
    /\ treeModel[2].text = LoadName(1)
    /\ lastOp.op = "deliver"

----------------------------------------------------------------------------
(* C13: which steps change the tree.                                       *)

C13_Frame ==
    /\ treeModel' # treeModel =>
          /\ lastOp'.op = "deliver"
          /\ lastOp'.outcome = "finished"
    /\ \/ lastOp'.op \in {"click", "closeTab", "closeAllTabs", "newSession",
                          "worker"}
       \/ lastOp'.op = "deliver" /\ lastOp'.outcome = "progress"
       => treeModel' = treeModel
    /\ Len(treeModel') >= Len(treeModel)
    /\ SubSeq(treeModel', 1, Len(treeModel)) = treeModel

----------------------------------------------------------------------------
(* C14: the top-level nodes and the registry.                              *)

----------------------------------------------------------------------------
(* C15: a load whose worker fails.                                         *)

\* an exception left the run of loader w before line 37
Failed(w) == workers[w].pc = "failed"

C15_FailedStaysRegistered ==
    \A w \in Loaders :
        /\ LoadName(w) \in DOMAIN database_items
        /\ Failed(w) =>
              /\ ~HasNode(LoadName(w))
              /\ ~FinishedPending(w)
              /\ \A v \in Loaders : LoadName(v) = LoadName(w) => v = w

C15_NoSecondLoad ==
    /\ \A n \in DOMAIN database_items :
          /\ n \in DOMAIN database_items'
          /\ database_items'[n] = database_items[n]
    /\ \A w \in Loaders : Failed(w) => workers'[w] = workers[w]
    /\ /\ lastOp'.op = "newSession"
       /\ \E w \in Loaders : Failed(w) /\ LoadName(w) = lastOp'.db_name
       => /\ lastOp'.outcome = "ignored"
          /\ workers' = workers
          /\ uiEvents' = uiEvents
          /\ treeModel' = treeModel

\* C15: the name of every loader is in the registry from the loader's
\* creation on and no step takes a name out or changes its entry; once a
\* loader has failed it stays failed, no finished signal of it exists, no
\* top-level node has its name, and every later loadDatabase for its name is
\* ignored and starts no loader
C15_FailedLoadNeverShown ==
    []C15_FailedStaysRegistered /\ [][C15_NoSecondLoad]_vars

\* after the loader of a name failed, the file was picked again and the
\* call was ignored; the other database is in the tree
C15_Witness ==
    /\ lastOp.op = "newSession"
    /\ lastOp.outcome = "ignored"
    /\ \E w \in Loaders : Failed(w) /\ LoadName(w) = lastOp.db_name
    /\ Len(treeModel) = 1

====
